---- MODULE Spec2Model ----
(***************************************************************************)
(* SQLAnonymizer of src/sql_anonymizer_query.py: the placeholder registry, *)
(* the per-table column registry, the scope pre-pass, the node rewriter    *)
(* and the sanitize_sql run that drives them.                              *)
(*                                                                         *)
(* Four specifications share the state of one SQLAnonymizer instance:      *)
(*   SpecRegistry  _reset_state and _get_placeholder called directly with  *)
(*                 any (type, original_value);                             *)
(*   SpecVisit     the two callbacks find_aliases_and_tables and           *)
(*                 _anonymize_node applied node by node, pre-pass first,   *)
(*                 for any choice of the visited nodes;                    *)
(*   SpecEdge      the same two callbacks on qualified table paths, reused *)
(*                 aliases and nodes of unexpected shape;                  *)
(*   Spec          __init__ and sanitize_sql as written: reset, parse_one, *)
(*                 the pre-pass recursion over node.expressions, the       *)
(*                 transform of the tree, printing and the log.            *)
(* A fifth, SpecSchema, is anonymize_schema of                             *)
(* src/sql_anonymizer_schema.py: one migration, step by step, with the     *)
(* errors the data stores and the libraries may raise at each step.        *)
(***************************************************************************)
EXTENDS Integers, Sequences, FiniteSets, TLC

VARIABLES
    dialect,                                  \* self.dialect
    strict_mode,                              \* self.strict_mode
    mappings,                                 \* self.mappings
    counters,                                 \* self.counters
    _alias_to_table_map,                      \* self._alias_to_table_map
    _original_table_path_to_anonymized_map,   \* self._original_table_path_to_anonymized_map
    _per_table_column_maps,                   \* self._per_table_column_maps
    _per_table_column_counters,               \* self._per_table_column_counters
    _global_column_map,                       \* self._global_column_map
    _global_column_counter,                   \* self._global_column_counter
    pc,          \* position inside sanitize_sql ("idle" between calls)
    query,       \* sanitize_sql argument query (index into Queries, 0 before a call)
    explain,     \* sanitize_sql argument explain
    ast,         \* the tree parse_one returned (sequence of nodes, root at 1)
    todo,        \* nodes the running traversal still has to visit
    trace,       \* the calls made since the last reset, each with what it returned
    sanitized,   \* the tree under construction by transform
    ret,         \* what sanitize_sql returned: [text, log], NoResult while it runs
    calls,       \* sanitize_sql calls completed on this instance (0, 1, 2 = more)
    instances,   \* instances constructed so far in the process
    first,       \* the first sanitize_sql call of the process, on its fresh instance
    returned,    \* the first transformation log handed to a caller, as the caller holds it
    spc,               \* position inside anonymize_schema ("idle" before a call)
    dbtype,            \* anonymize_schema argument dbtype
    catalog,           \* the tables of the input data store, each with its columns
    db_schema,         \* local db_schema, in the order of its items()
    conn_input,        \* local conn_input: None, "open" or "closed"
    conn_output,       \* local conn_output: None, "open" or "closed"
    output_exists,     \* os.path.exists(output_path)
    same_file,         \* output_path names the file input_path names (sqlite)
    input_file,        \* the input data store: "intact", "removed" once its file was deleted
    table_counter,     \* local table_counter
    table_mapping,     \* local table_mapping
    column_mappings,   \* local column_mappings
    generated,         \* the CREATE TABLE statements executed or generated, in order
    copies,            \* the SELECT and INSERT column lists of the row copies, in order
    exc,               \* the exception in flight, None when there is none
    outcome            \* how the call was left: returned value or exception raised

registries == <<mappings, counters, _alias_to_table_map,
                _original_table_path_to_anonymized_map, _per_table_column_maps,
                _per_table_column_counters, _global_column_map,
                _global_column_counter>>

run == <<pc, query, explain, ast, todo, sanitized, ret>>

migration == <<spc, dbtype, catalog, db_schema, conn_input, conn_output,
               output_exists, same_file, input_file, table_counter, table_mapping, column_mappings,
               generated, copies, exc, outcome>>

vars == <<dialect, strict_mode, registries, run, trace, calls, instances, first,
          returned, migration>>

---------------------------------------------------------------------------
(* Bounds of the model. *)

\* direct registry calls between two resets (SpecRegistry)
MaxCalls == 4

\* rewrite callback invocations between two resets (SpecVisit)
MaxVisits == 3

\* instances constructed in one behaviour (Spec)
MaxInstances == 2

\* tables in the catalog of a migration (SpecSchema)
MaxTables == 2

---------------------------------------------------------------------------
(* Values. *)

\* Python's None
None == "<None>"

\* {} : the empty dict
EmptyDict == [k \in {} |-> None]

\* d[k] = v on a dict
Put(d, k, v) == [x \in DOMAIN d \cup {k} |-> IF x = k THEN v ELSE d[x]]

\* the texts of the model that hold an upper-case letter, with str.lower() of each
LowerTable ==
    [Orders |-> "orders", A |-> "a", X |-> "x", Sales |-> "sales",
     Acme |-> "acme", Abc |-> "abc"]
    @@ ("Sales.Orders" :> "sales.orders")
    @@ ("Bob@X.com" :> "bob@x.com")
    @@ ("1E5" :> "1e5")

\* str.lower()
lower(s) == IF s \in DOMAIN LowerTable THEN LowerTable[s] ELSE s

\* '@' in s, for the texts of the model
HasAt(s) == s \in {"Bob@X.com", "bob@x.com"}

\* the keys of self.mappings and self.counters
Types == {"database", "schema", "table", "string", "number", "email"}

\* the types _get_placeholder lower-cases
IdentifierTypes == {"database", "schema", "table"}

\* f"{prefix}_{n}" with a numbering that goes on from one instance to the next
Placeholder_process_wide(prefix, n) == prefix \o "_" \o ToString(n + instances - 1)

\* f"{prefix}_{n}"
Placeholder(prefix, n) == prefix \o "_" \o ToString(n)

---------------------------------------------------------------------------
(* __init__ and _reset_state. *)

\* the dialects sqlglot knows, as far as the model uses them
Dialects == {"postgres", "mysql"}

\* what a caller may pass as dialect
DialectArgs == {None, "postgres", "mysql", "klingon"}

\* line 30: the default when the dialect is missing or unknown
InitDialect(d) == IF d # None /\ d \in Dialects THEN d ELSE "postgres"

\* lines 32-63: the registries as __init__ builds them
init_state ==
    [mappings |-> [t \in Types |-> EmptyDict],
     counters |-> [t \in Types |-> 0],
     _alias_to_table_map |-> EmptyDict,
     _original_table_path_to_anonymized_map |-> EmptyDict,
     _per_table_column_maps |-> EmptyDict,
     _per_table_column_counters |-> EmptyDict,
     _global_column_map |-> EmptyDict,
     _global_column_counter |-> 0]

\* _reset_state() that rebuilds the maps and forgets the counters
_reset_state_keeps_counters ==
    [mappings |-> [t \in Types |-> EmptyDict],
     counters |-> counters,
     _alias_to_table_map |-> EmptyDict,
     _original_table_path_to_anonymized_map |-> EmptyDict,
     _per_table_column_maps |-> EmptyDict,
     _per_table_column_counters |-> EmptyDict,
     _global_column_map |-> EmptyDict,
     _global_column_counter |-> _global_column_counter]

\* _reset_state() that resets the counters and forgets self.mappings
_reset_state_keeps_mappings ==
    [mappings |-> mappings,
     counters |-> [t \in Types |-> 0],
     _alias_to_table_map |-> EmptyDict,
     _original_table_path_to_anonymized_map |-> EmptyDict,
     _per_table_column_maps |-> EmptyDict,
     _per_table_column_counters |-> EmptyDict,
     _global_column_map |-> EmptyDict,
     _global_column_counter |-> 0]

\* the registries after _reset_state()
_reset_state ==
    [mappings |-> [t \in Types |-> EmptyDict],
     counters |-> [t \in Types |-> 0],
     _alias_to_table_map |-> EmptyDict,
     _original_table_path_to_anonymized_map |-> EmptyDict,
     _per_table_column_maps |-> EmptyDict,
     _per_table_column_counters |-> EmptyDict,
     _global_column_map |-> EmptyDict,
     _global_column_counter |-> 0]

\* the registries as one record
Registries ==
    [mappings |-> mappings,
     counters |-> counters,
     _alias_to_table_map |-> _alias_to_table_map,
     _original_table_path_to_anonymized_map |-> _original_table_path_to_anonymized_map,
     _per_table_column_maps |-> _per_table_column_maps,
     _per_table_column_counters |-> _per_table_column_counters,
     _global_column_map |-> _global_column_map,
     _global_column_counter |-> _global_column_counter]

\* the registries are as __init__ builds them
InitRegistries ==
    /\ mappings = init_state.mappings
    /\ counters = init_state.counters
    /\ _alias_to_table_map = init_state._alias_to_table_map
    /\ _original_table_path_to_anonymized_map
          = init_state._original_table_path_to_anonymized_map
    /\ _per_table_column_maps = init_state._per_table_column_maps
    /\ _per_table_column_counters = init_state._per_table_column_counters
    /\ _global_column_map = init_state._global_column_map
    /\ _global_column_counter = init_state._global_column_counter

\* assign a registries record to the instance
SetRegistries(r) ==
    /\ mappings' = r.mappings
    /\ counters' = r.counters
    /\ _alias_to_table_map' = r._alias_to_table_map
    /\ _original_table_path_to_anonymized_map' = r._original_table_path_to_anonymized_map
    /\ _per_table_column_maps' = r._per_table_column_maps
    /\ _per_table_column_counters' = r._per_table_column_counters
    /\ _global_column_map' = r._global_column_map
    /\ _global_column_counter' = r._global_column_counter

---------------------------------------------------------------------------
(* The placeholder registry. *)

\* line 97 with the test on the type dropped: every original is lower-cased
normalized_value_all_lower(type, original_value) == lower(original_value)

\* line 97: the key an original is looked up and stored under
normalized_value(type, original_value) ==
    IF type \in IdentifierTypes THEN lower(original_value) ELSE original_value

\* _get_placeholder without line 104: the new placeholder is never stored
_get_placeholder_not_stored(type, original_value) ==
    LET key == normalized_value(type, original_value) IN
    IF key \in DOMAIN mappings[type]
    THEN [placeholder |-> mappings[type][key],
          registries |-> Registries]
    ELSE LET n == counters[type] + 1 IN
         [placeholder |-> Placeholder(type, n),
          registries |-> [Registries EXCEPT
                             !.counters = [counters EXCEPT ![type] = n]]]

\* _get_placeholder with line 102 moved before the lookup of line 99: the
\* counter counts the calls, not the allocations
_get_placeholder_counts_calls(type, original_value) ==
    LET key == normalized_value(type, original_value)
        n == counters[type] + 1
    IN
    IF key \in DOMAIN mappings[type]
    THEN [placeholder |-> mappings[type][key],
          registries |-> [Registries EXCEPT
                             !.counters = [counters EXCEPT ![type] = n]]]
    ELSE [placeholder |-> Placeholder(type, n),
          registries |->
              [Registries EXCEPT
                  !.counters = [counters EXCEPT ![type] = n],
                  !.mappings = [mappings EXCEPT
                                   ![type] = Put(@, key, Placeholder(type, n))]]]

\* _get_placeholder(type, original_value): the placeholder returned and the
\* registries the call leaves
_get_placeholder(type, original_value) ==
    LET key == normalized_value(type, original_value) IN
    IF key \in DOMAIN mappings[type]
    THEN [placeholder |-> mappings[type][key],
          registries |-> Registries]
    ELSE LET n == counters[type] + 1 IN
         [placeholder |-> Placeholder(type, n),
          registries |->
              [Registries EXCEPT
                  !.counters = [counters EXCEPT ![type] = n],
                  !.mappings = [mappings EXCEPT
                                   ![type] = Put(@, key, Placeholder(type, n))]]]

\* _get_anonymized_column_name with one numbering shared by the tables: a
\* new column gets the number after the highest any table has reached
_get_anonymized_column_name_shared_counter(original_table_path, original_col_name) ==
    LET normalized_col_name == lower(original_col_name)
        path == original_table_path
        highest == IF DOMAIN _per_table_column_counters = {} THEN 0
                   ELSE CHOOSE n \in {_per_table_column_counters[t] :
                                         t \in DOMAIN _per_table_column_counters} :
                            \A t \in DOMAIN _per_table_column_counters :
                                _per_table_column_counters[t] <= n
    IN
    IF path # None /\ path # ""
    THEN LET col_map == IF path \in DOMAIN _per_table_column_maps
                        THEN _per_table_column_maps[path] ELSE EmptyDict
         IN
         IF normalized_col_name \in DOMAIN col_map
         THEN [placeholder |-> col_map[normalized_col_name],
               registries |-> Registries]
         ELSE [placeholder |-> Placeholder("col", highest + 1),
               registries |->
                   [Registries EXCEPT
                       !._per_table_column_maps =
                           Put(@, path, Put(col_map, normalized_col_name,
                                            Placeholder("col", highest + 1))),
                       !._per_table_column_counters = Put(@, path, highest + 1)]]
    ELSE IF normalized_col_name \in DOMAIN _global_column_map
         THEN [placeholder |-> _global_column_map[normalized_col_name],
               registries |-> Registries]
         ELSE LET n == _global_column_counter + 1 IN
              [placeholder |-> Placeholder("global_col", n),
               registries |->
                   [Registries EXCEPT
                       !._global_column_counter = n,
                       !._global_column_map =
                           Put(@, normalized_col_name, Placeholder("global_col", n))]]

\* _get_anonymized_column_name(original_table_path, original_col_name)
_get_anonymized_column_name(original_table_path, original_col_name) ==
    LET normalized_col_name == lower(original_col_name)
        path == original_table_path
    IN
    IF path # None /\ path # ""
    THEN \* lines 113-115: the table's map and counter are created on first use
         LET col_map == IF path \in DOMAIN _per_table_column_maps
                        THEN _per_table_column_maps[path] ELSE EmptyDict
             counter == IF path \in DOMAIN _per_table_column_maps
                        THEN _per_table_column_counters[path] ELSE 0
         IN
         IF normalized_col_name \in DOMAIN col_map
         THEN [placeholder |-> col_map[normalized_col_name],
               registries |->
                   [Registries EXCEPT
                       !._per_table_column_maps = Put(@, path, col_map),
                       !._per_table_column_counters = Put(@, path, counter)]]
         ELSE [placeholder |-> Placeholder("col", counter + 1),
               registries |->
                   [Registries EXCEPT
                       !._per_table_column_maps =
                           Put(@, path, Put(col_map, normalized_col_name,
                                            Placeholder("col", counter + 1))),
                       !._per_table_column_counters = Put(@, path, counter + 1)]]
    ELSE \* lines 126-133: the global fallback
         IF normalized_col_name \in DOMAIN _global_column_map
         THEN [placeholder |-> _global_column_map[normalized_col_name],
               registries |-> Registries]
         ELSE LET n == _global_column_counter + 1 IN
              [placeholder |-> Placeholder("global_col", n),
               registries |->
                   [Registries EXCEPT
                       !._global_column_counter = n,
                       !._global_column_map =
                           Put(@, normalized_col_name, Placeholder("global_col", n))]]

---------------------------------------------------------------------------
(* The parsed tree, as the engine reads it.  A node is a record:           *)
(*   kind         the class of the node (Database, Schema, Table, Column,  *)
(*                Literal, or a class the engine does not handle)          *)
(*   name         node.this.name of a Database, Schema or Table, node.name *)
(*                of a Column, node.this of a Literal                      *)
(*   sql          str(node), read for a Database or Schema                 *)
(*   parts        [part.name for part in node.parts] of a Table            *)
(*   alias        node.alias.this.name of a Table, None without an alias   *)
(*   qualifier    node.this.expression.name of a Column, None when the     *)
(*                test of line 226 fails                                   *)
(*   final        the class of the last part of node.this, after the       *)
(*                QualifiedIdentifier chain: Identifier, Star or another   *)
(*   is_string, is_number   of a Literal                                   *)
(*   expressions  the children in node.expressions                         *)
(*   args         the children held by the node's other arguments          *)
(* Children are indexes into the sequence that is the tree.                *)

Node(kind, name) ==
    [kind |-> kind, name |-> name, sql |-> name, parts |-> <<>>, alias |-> None,
     qualifier |-> None, final |-> "Identifier", is_string |-> FALSE,
     is_number |-> FALSE, expressions |-> <<>>, args |-> <<>>]

\* db, or a Database whose this is not an Identifier
DatabaseNode(name, final) == [Node("Database", name) EXCEPT !.final = final]

SchemaNode(name, final) == [Node("Schema", name) EXCEPT !.final = final]

\* parts[1]. ... .parts[n] [AS alias]
TableNode(parts, alias) ==
    [Node("Table", parts[Len(parts)]) EXCEPT !.parts = parts, !.alias = alias]

\* [qualifier.]name
ColumnNode(qualifier, name) == [Node("Column", name) EXCEPT !.qualifier = qualifier]

\* 'text'
StringNode(text) == [Node("Literal", text) EXCEPT !.is_string = TRUE]

\* a numeric literal
NumberNode(text) == [Node("Literal", text) EXCEPT !.is_number = TRUE]

\* a node of a class the engine does not handle
OtherNode(kind, expressions, args) ==
    [Node(kind, kind) EXCEPT !.expressions = expressions, !.args = args]

\* ".".join(parts)
RECURSIVE Join(_)
Join(parts) ==
    IF Len(parts) = 0 THEN ""
    ELSE IF Len(parts) = 1 THEN parts[1]
    ELSE parts[1] \o "." \o Join(Tail(parts))

\* lines 143-144 and 189-190: the original path of a Table node
original_table_path(node) ==
    Join(SelectSeq(node.parts, LAMBDA part : part # None))

---------------------------------------------------------------------------
(* The scope pre-pass. *)

\* line 150: the explicit alias, else the table's own name
alias_name(node) == IF node.alias # None THEN node.alias ELSE node.name

\* lines 142-152 with an alias name bound only when it is not bound yet
find_aliases_and_tables_first_wins(node) ==
    IF node.kind # "Table" THEN Registries
    ELSE
      LET path == original_table_path(node)
          r == _get_placeholder("table", path)
          registered ==
              IF path \in DOMAIN _original_table_path_to_anonymized_map
              THEN Registries
              ELSE [r.registries EXCEPT
                       !._original_table_path_to_anonymized_map =
                           Put(@, path, r.placeholder)]
      IN
      IF alias_name(node) # None /\ alias_name(node) # ""
         /\ lower(alias_name(node)) \notin DOMAIN _alias_to_table_map
      THEN [registered EXCEPT
               !._alias_to_table_map = Put(@, lower(alias_name(node)), path)]
      ELSE registered

\* lines 142-152: what find_aliases_and_tables does at one node, before it
\* recurses into node.expressions; the registries it leaves
find_aliases_and_tables(node) ==
    IF node.kind # "Table" THEN Registries
    ELSE
      LET path == original_table_path(node)
          r == _get_placeholder("table", path)
          registered ==
              IF path \in DOMAIN _original_table_path_to_anonymized_map
              THEN Registries
              ELSE [r.registries EXCEPT
                       !._original_table_path_to_anonymized_map =
                           Put(@, path, r.placeholder)]
      IN
      IF alias_name(node) # None /\ alias_name(node) # ""
      THEN [registered EXCEPT
               !._alias_to_table_map = Put(@, lower(alias_name(node)), path)]
      ELSE registered

---------------------------------------------------------------------------
(* The rewrite callback.  Every result is [node, is_arg, registries]:      *)
(* the node returned, whether it is the very object that was passed in     *)
(* (every return statement of _anonymize_node builds a new node or a       *)
(* copy), and the registries the call leaves.                              *)

\* lines 166-184 without the test of lines 169 and 179: the name is replaced
\* whatever node.this is
anonymize_container_ignores_shape(type, node) ==
    LET original_name_key ==
            IF node.final = "Identifier" /\ node.name # None
            THEN node.name ELSE node.sql
        r == _get_placeholder(type, original_name_key)
    IN
    [node |-> [node EXCEPT !.name = r.placeholder],
     is_arg |-> FALSE,
     registries |-> r.registries]

\* lines 166-184: a Database or Schema node
anonymize_container(type, node) ==
    LET original_name_key ==
            IF node.final = "Identifier" /\ node.name # None
            THEN node.name ELSE node.sql
        r == _get_placeholder(type, original_name_key)
    IN
    [node |-> IF node.final = "Identifier"
              THEN [node EXCEPT !.name = r.placeholder]
              ELSE node,
     is_arg |-> FALSE,
     registries |-> r.registries]

\* lines 186-215: a Table node
anonymize_table(node) ==
    LET path == original_table_path(node)
        anonymized_name ==
            IF path \in DOMAIN _original_table_path_to_anonymized_map
            THEN _original_table_path_to_anonymized_map[path]
            ELSE path
    IN
    [node |-> IF node.final = "Identifier"
              THEN [node EXCEPT
                       !.name = anonymized_name,
                       !.parts = [@ EXCEPT ![Len(@)] = anonymized_name]]
              ELSE node,
     is_arg |-> FALSE,
     registries |-> Registries]

\* lines 236-241: the tables of the statement that already hold a mapping
\* for the column
potential_table_paths(normalized_col_name) ==
    {table_path_in_from \in DOMAIN _original_table_path_to_anonymized_map :
        /\ table_path_in_from \in DOMAIN _per_table_column_maps
        /\ normalized_col_name \in DOMAIN _per_table_column_maps[table_path_in_from]}

\* lines 222-262 with an ambiguous column given to the first table that
\* holds it
resolve_table_path_first_match(node) ==
    LET by_qualifier ==
            IF node.qualifier # None
               /\ lower(node.qualifier) \in DOMAIN _alias_to_table_map
            THEN _alias_to_table_map[lower(node.qualifier)]
            ELSE None
        candidates == potential_table_paths(lower(node.name))
    IN
    IF by_qualifier # None /\ by_qualifier # "" THEN by_qualifier
    ELSE IF Cardinality(candidates) >= 1
         THEN CHOOSE table_path \in candidates : TRUE
         ELSE None

\* lines 222-262: the table a Column node is attributed to, None for the
\* global fallback
resolve_table_path(node) ==
    LET by_qualifier ==
            IF node.qualifier # None
               /\ lower(node.qualifier) \in DOMAIN _alias_to_table_map
            THEN _alias_to_table_map[lower(node.qualifier)]
            ELSE None
        candidates == potential_table_paths(lower(node.name))
    IN
    IF by_qualifier # None /\ by_qualifier # "" THEN by_qualifier
    ELSE IF Cardinality(candidates) = 1
         THEN CHOOSE table_path \in candidates : TRUE
         ELSE None

\* lines 243-262: what the resolution of a Column node prints, which is all
\* that reads self.strict_mode
column_warnings(node) ==
    LET by_qualifier ==
            IF node.qualifier # None
               /\ lower(node.qualifier) \in DOMAIN _alias_to_table_map
            THEN _alias_to_table_map[lower(node.qualifier)]
            ELSE None
        found == Cardinality(potential_table_paths(lower(node.name)))
        prefix == IF strict_mode THEN "Warning (Strict Mode): " ELSE "Warning: "
    IN
    IF node.kind # "Column" \/ node.name = None THEN <<>>
    ELSE IF by_qualifier # None /\ by_qualifier # "" THEN <<>>
    ELSE IF found = 1 THEN <<>>
    ELSE IF found > 1
         THEN << prefix \o "Unqualified column '" \o node.name \o "' is ambiguous" >>
    ELSE IF strict_mode
         THEN << prefix \o "Unqualified column '" \o node.name
                    \o "' could not be resolved" >>
    ELSE <<>>

\* lines 217-290 with strict mode leaving an unresolved column as it is
anonymize_column_strict_refuses(node) ==
    IF node.name = None \/ (strict_mode /\ resolve_table_path(node) = None)
    THEN [node |-> node, is_arg |-> FALSE, registries |-> Registries]
    ELSE
      LET r == _get_anonymized_column_name(resolve_table_path(node), node.name) IN
      [node |-> IF node.final = "Identifier"
                THEN [node EXCEPT !.name = r.placeholder]
                ELSE node,
       is_arg |-> FALSE,
       registries |-> r.registries]

\* lines 217-290: a Column node
anonymize_column(node) ==
    IF node.name = None
    THEN [node |-> node, is_arg |-> FALSE, registries |-> Registries]
    ELSE
      LET r == _get_anonymized_column_name(resolve_table_path(node), node.name) IN
      [node |-> IF node.final = "Identifier"
                THEN [node EXCEPT !.name = r.placeholder]
                ELSE node,
       is_arg |-> FALSE,
       registries |-> r.registries]

\* lines 293-308 with the test on is_string made before the test on '@'
anonymize_literal_string_first(node) ==
    LET original_value == node.name IN
    IF node.is_string
    THEN LET r == _get_placeholder("string", original_value) IN
         [node |-> [node EXCEPT !.name = r.placeholder,
                                !.is_string = TRUE, !.is_number = FALSE],
          is_arg |-> FALSE,
          registries |-> r.registries]
    ELSE IF HasAt(original_value)
    THEN LET r == _get_placeholder("email", lower(original_value)) IN
         [node |-> [node EXCEPT !.name = r.placeholder,
                                !.is_string = TRUE, !.is_number = FALSE],
          is_arg |-> FALSE,
          registries |-> r.registries]
    ELSE IF node.is_number
    THEN LET r == _get_placeholder("number", original_value) IN
         [node |-> [node EXCEPT !.name = r.placeholder,
                                !.is_string = FALSE, !.is_number = TRUE],
          is_arg |-> FALSE,
          registries |-> r.registries]
    ELSE [node |-> node, is_arg |-> FALSE, registries |-> Registries]

\* lines 293-308: a Literal node
anonymize_literal(node) ==
    LET original_value == node.name IN
    IF HasAt(original_value)
    THEN LET r == _get_placeholder("email", lower(original_value)) IN
         [node |-> [node EXCEPT !.name = r.placeholder,
                                !.is_string = TRUE, !.is_number = FALSE],
          is_arg |-> FALSE,
          registries |-> r.registries]
    ELSE IF node.is_string
    THEN LET r == _get_placeholder("string", original_value) IN
         [node |-> [node EXCEPT !.name = r.placeholder,
                                !.is_string = TRUE, !.is_number = FALSE],
          is_arg |-> FALSE,
          registries |-> r.registries]
    ELSE IF node.is_number
    THEN LET r == _get_placeholder("number", original_value) IN
         [node |-> [node EXCEPT !.name = r.placeholder,
                                !.is_string = FALSE, !.is_number = TRUE],
          is_arg |-> FALSE,
          registries |-> r.registries]
    ELSE [node |-> node, is_arg |-> FALSE, registries |-> Registries]

\* line 323: any other node is returned as a copy
copy_unhandled(node) ==
    [node |-> node, is_arg |-> FALSE, registries |-> Registries]

\* _anonymize_node(node)
_anonymize_node(node) ==
    CASE node.kind = "Database" -> anonymize_container("database", node)
      [] node.kind = "Schema" -> anonymize_container("schema", node)
      [] node.kind = "Table" -> anonymize_table(node)
      [] node.kind = "Column" -> anonymize_column(node)
      [] node.kind = "Literal" -> anonymize_literal(node)
      [] OTHER -> copy_unhandled(node)

---------------------------------------------------------------------------
(* State shared by the specifications. *)

NoResult == [text |-> None, log |-> EmptyDict]

NoFirst == [set |-> FALSE]

\* no log has been handed out yet
NoReturned == [set |-> FALSE, live |-> FALSE, at_return |-> EmptyDict,
               frozen |-> EmptyDict]

\* anonymize_schema has not been called
NoOutcome == [kind |-> "none", value |-> EmptyDict]

NoMigration ==
    /\ spc = "idle"
    /\ dbtype = "sqlite"
    /\ catalog = <<>>
    /\ db_schema = <<>>
    /\ conn_input = None
    /\ conn_output = None
    /\ output_exists = FALSE
    /\ same_file = FALSE
    /\ input_file = "intact"
    /\ table_counter = 0
    /\ table_mapping = EmptyDict
    /\ column_mappings = EmptyDict
    /\ generated = <<>>
    /\ copies = <<>>
    /\ exc = None
    /\ outcome = NoOutcome

InitRun ==
    /\ pc = "idle"
    /\ query = 0
    /\ explain = FALSE
    /\ ast = <<>>
    /\ todo = <<>>
    /\ sanitized = <<>>
    /\ ret = NoResult

\* __init__(dialect=d, strict_mode=s), for the first instance of the process
Constructed(d, s) ==
    /\ dialect = InitDialect(d)
    /\ strict_mode = s
    /\ InitRegistries
    /\ InitRun
    /\ trace = <<>>
    /\ calls = 0
    /\ instances = 1
    /\ first = NoFirst
    /\ returned = NoReturned
    /\ NoMigration

\* SQLAnonymizer(dialect=d, strict_mode=s)
Init == \E d \in DialectArgs, s \in BOOLEAN : Constructed(d, s)

\* SQLAnonymizer(strict_mode=s)
InitDefaultDialect == \E s \in BOOLEAN : Constructed(None, s)

\* SQLAnonymizer()
InitDefault == Constructed(None, FALSE)

---------------------------------------------------------------------------
(* SpecRegistry: the registry called directly. *)

\* the originals the direct calls draw from
Originals == {"Orders", "orders", "customers"}

\* self._reset_state()
RReset ==
    /\ SetRegistries(_reset_state)
    /\ trace' = <<>>
    /\ UNCHANGED <<dialect, strict_mode, run, calls, instances, first,
                   returned, migration>>

\* self._get_placeholder(t, v)
RGetPlaceholder(t, v) ==
    /\ Len(trace) < MaxCalls
    /\ LET r == _get_placeholder(t, v) IN
        /\ SetRegistries(r.registries)
        /\ trace' = Append(trace, [op |-> "_get_placeholder", type |-> t,
                                   original_value |-> v,
                                   placeholder |-> r.placeholder])
    /\ UNCHANGED <<dialect, strict_mode, run, calls, instances, first,
                   returned, migration>>

NextRegistry ==
    \/ RReset
    \/ \E t \in Types, v \in Originals : RGetPlaceholder(t, v)

SpecRegistry == InitDefault /\ [][NextRegistry]_vars

---------------------------------------------------------------------------
(* SpecVisit: the two callbacks, node by node.  The traversals that call   *)
(* them belong to the parser library; here every node of VisitNodes may be *)
(* handed to the pre-pass callback, and then to the rewrite callback, in   *)
(* any order and any number of times.                                      *)

VisitNodes ==
    {TableNode(<<"orders">>, "a"),
     TableNode(<<"Orders">>, None),
     TableNode(<<"customers">>, None),
     ColumnNode("a", "x"),
     ColumnNode("customers", "x"),
     ColumnNode(None, "x"),
     ColumnNode(None, "id"),
     StringNode("Abc"),
     StringNode("abc"),
     StringNode("Bob@X.com"),
     StringNode("bob@x.com"),
     DatabaseNode("Acme", "Identifier"),
     SchemaNode("Sales", "Identifier"),
     OtherNode("Select", <<>>, <<>>)}

\* sanitize_sql line 338: a run starts with _reset_state()
VReset ==
    /\ SetRegistries(_reset_state)
    /\ pc' = "preprocess"
    /\ trace' = <<>>
    /\ UNCHANGED <<dialect, strict_mode, query, explain, ast, todo, sanitized, ret,
                   calls, instances, first, returned, migration>>

\* find_aliases_and_tables(node) for one node of the pre-pass
VPreprocess(node) ==
    /\ pc = "preprocess"
    /\ SetRegistries(find_aliases_and_tables(node))
    /\ UNCHANGED <<dialect, strict_mode, run, trace, calls, instances, first,
                   returned, migration>>

\* line 352: the pre-pass is over, the rewrite starts
VTransform ==
    /\ pc = "preprocess"
    /\ pc' = "transform"
    /\ UNCHANGED <<dialect, strict_mode, registries, query, explain, ast, todo,
                   sanitized, ret, trace, calls, instances, first, returned,
                   migration>>

\* self._anonymize_node(node) for one node of the rewrite
VAnonymize(node) ==
    /\ pc = "transform"
    /\ Len(trace) < MaxVisits
    /\ LET r == _anonymize_node(node) IN
        /\ SetRegistries(r.registries)
        /\ trace' = Append(trace, [op |-> "_anonymize_node", node |-> node,
                                   result |-> r.node,
                                   printed |-> column_warnings(node)])
    /\ UNCHANGED <<dialect, strict_mode, run, calls, instances, first,
                   returned, migration>>

NextVisit ==
    \/ VReset
    \/ \E node \in VisitNodes : VPreprocess(node)
    \/ VTransform
    \/ \E node \in VisitNodes : VAnonymize(node)

SpecVisit == InitDefaultDialect /\ [][NextVisit]_vars

---------------------------------------------------------------------------
(* SpecEdge: the two callbacks of SpecVisit on the nodes of less usual     *)
(* statements: a table written with its schema, one alias given to two     *)
(* tables, and nodes whose identifier part is not the Identifier the       *)
(* handlers expect (lines 172, 182, 211-215, 286-290).                     *)

EdgeNodes ==
    {TableNode(<<"Sales", "Orders">>, None),
     TableNode(<<"orders">>, "a"),
     TableNode(<<"customers">>, "A"),
     [TableNode(<<"orders">>, "a") EXCEPT !.final = "Anonymous"],
     ColumnNode("a", "x"),
     [ColumnNode("a", "x") EXCEPT !.final = "Anonymous"],
     [ColumnNode(None, "x") EXCEPT !.final = "Star"],
     DatabaseNode("Acme", "Identifier"),
     DatabaseNode("Acme", "Dot"),
     SchemaNode("Sales", "Dot")}

NextEdge ==
    \/ VReset
    \/ \E node \in EdgeNodes : VPreprocess(node)
    \/ VTransform
    \/ \E node \in EdgeNodes : VAnonymize(node)

SpecEdge == InitDefaultDialect /\ [][NextEdge]_vars

---------------------------------------------------------------------------
(* Spec: sanitize_sql as written. *)

\* the inputs of the model: the text, and the tree parse_one returns for it
\* (<<>> when parse_one raises ParseError).  A Select holds its projections
\* in expressions and its FROM clause in another argument; TRUNCATE holds
\* its tables in expressions.
Queries ==
    << [text |-> "SELECT a.x FROM orders a",
        tree |-> << OtherNode("Select", <<2>>, <<3>>),
                    ColumnNode("a", "x"),
                    OtherNode("From", <<>>, <<4>>),
                    TableNode(<<"orders">>, "a") >>],
       [text |-> "SELECT id FROM customers",
        tree |-> << OtherNode("Select", <<2>>, <<3>>),
                    ColumnNode(None, "id"),
                    OtherNode("From", <<>>, <<4>>),
                    TableNode(<<"customers">>, None) >>],
       [text |-> "SELECT x, a.x FROM orders a",
        tree |-> << OtherNode("Select", <<2, 3>>, <<4>>),
                    ColumnNode(None, "x"),
                    ColumnNode("a", "x"),
                    OtherNode("From", <<>>, <<5>>),
                    TableNode(<<"orders">>, "a") >>],
       [text |-> "TRUNCATE TABLE Orders, orders",
        tree |-> << OtherNode("TruncateTable", <<2, 3>>, <<>>),
                    TableNode(<<"Orders">>, None),
                    TableNode(<<"orders">>, None) >>],
       [text |-> "'Bob@X.com'",
        tree |-> << StringNode("Bob@X.com") >>],
       [text |-> "x",
        tree |-> << ColumnNode(None, "x") >>],
       [text |-> "SELEC x FROM",
        tree |-> << >>] >>

\* sqlglot.parse_one(query, dialect): the tree, or <<>> for ParseError
parse_one(q, d) == Queries[q].tree

\* node.sql(dialect): the text of the subtree at i
RECURSIVE sql(_, _)
sql(tree, i) ==
    LET node == tree[i]
        RECURSIVE list(_, _)
        list(ids, sep) ==
            IF Len(ids) = 0 THEN ""
            ELSE IF Len(ids) = 1 THEN sql(tree, ids[1])
            ELSE sql(tree, ids[1]) \o sep \o list(Tail(ids), sep)
    IN
    CASE node.kind = "Column" ->
            (IF node.qualifier # None THEN node.qualifier \o "." ELSE "") \o node.name
      [] node.kind = "Table" ->
            Join(node.parts) \o (IF node.alias # None THEN " AS " \o node.alias ELSE "")
      [] node.kind = "Literal" ->
            IF node.is_string THEN "'" \o node.name \o "'" ELSE node.name
      [] node.kind \in {"Database", "Schema"} -> node.name
      [] node.kind = "Select" ->
            "SELECT " \o list(node.expressions, ", ") \o " " \o list(node.args, " ")
      [] node.kind = "From" -> "FROM " \o list(node.args, ", ")
      [] OTHER -> "TRUNCATE TABLE " \o list(node.expressions, ", ")

\* lines 369-385 without the test on explain
transformation_log_always(e) ==
    [identifier_mappings |->
         [database |-> mappings["database"],
          schema |-> mappings["schema"],
          table |-> _original_table_path_to_anonymized_map,
          global_column_fallback |-> _global_column_map],
     column_mappings_per_table |-> _per_table_column_maps,
     literal_mappings |->
         [string |-> mappings["string"],
          number |-> mappings["number"],
          email |-> mappings["email"]]]

\* lines 369-385: the log sanitize_sql returns
transformation_log(e) ==
    IF e
    THEN [identifier_mappings |->
              [database |-> mappings["database"],
               schema |-> mappings["schema"],
               table |-> _original_table_path_to_anonymized_map,
               global_column_fallback |-> _global_column_map],
          column_mappings_per_table |-> _per_table_column_maps,
          literal_mappings |->
              [string |-> mappings["string"],
               number |-> mappings["number"],
               email |-> mappings["email"]]]
    ELSE EmptyDict

\* line 363: the log of a failed parse
error_log(d) == [error |-> "Parsing failed for dialect " \o d]

\* lines 371-383 and 391-402: the log handed to the caller holds the
\* instance's own dicts, not copies of them.  The model keeps the first log
\* handed out: live while its dicts are still the dicts of the instance,
\* at_return its content when it was handed out, frozen the content its
\* dicts keep once the instance no longer holds them.
hand_out(r, log) ==
    IF r.set THEN r
    ELSE [set |-> TRUE, live |-> TRUE, at_return |-> log, frozen |-> log]

\* the dicts of the log are no longer dicts of the instance the model follows
frozen_log(r) ==
    [r EXCEPT !.live = FALSE,
              !.frozen = IF r.live THEN transformation_log(TRUE) ELSE r.frozen]

\* _reset_state() that empties the dicts with clear() in place of new dicts
_reset_state_clears_in_place(r) == r

\* lines 69-90: _reset_state() binds the attributes to new dicts, which
\* leaves the dicts of a log handed out before as they were
_reset_state_rebinds(r) == frozen_log(r)

\* sanitize_sql returns (text, log) with the registries as r
Return(text, log, r) ==
    /\ ret' = [text |-> text, log |-> log]
    /\ pc' = "idle"
    /\ calls' = IF calls < 2 THEN calls + 1 ELSE calls
    /\ first' = IF first.set THEN first
                ELSE [set |-> TRUE, instance |-> instances, dialect |-> dialect,
                      strict_mode |-> strict_mode, query |-> query',
                      explain |-> explain', ret |-> ret', registries |-> r]

\* SQLAnonymizer(dialect=d, strict_mode=s): one more instance; the model
\* follows the newest one
Construct(d, s) ==
    /\ pc = "idle"
    /\ instances < MaxInstances
    /\ instances' = instances + 1
    /\ dialect' = InitDialect(d)
    /\ strict_mode' = s
    /\ SetRegistries(init_state)
    /\ pc' = "idle" /\ query' = 0 /\ explain' = FALSE /\ ast' = <<>>
    /\ todo' = <<>> /\ sanitized' = <<>> /\ ret' = NoResult
    /\ trace' = <<>>
    /\ calls' = 0
    /\ returned' = frozen_log(returned)
    /\ UNCHANGED <<first, migration>>

\* sanitize_sql(q, e), lines 338-345 and 360-363: reset, parse, and the
\* return of a failed parse
SanitizeBegin(q, e) ==
    /\ pc = "idle"
    /\ query' = q
    /\ explain' = e
    /\ SetRegistries(_reset_state)
    /\ returned' = _reset_state_rebinds(returned)
    /\ trace' = <<>>
    /\ ast' = parse_one(q, dialect)
    /\ sanitized' = parse_one(q, dialect)
    /\ IF parse_one(q, dialect) = <<>>
       THEN /\ todo' = <<>>
            /\ Return(Queries[q].text, error_log(dialect), _reset_state)
       ELSE /\ todo' = <<1>>
            /\ pc' = "preprocess"
            /\ ret' = NoResult
            /\ UNCHANGED <<calls, first>>
    /\ UNCHANGED <<dialect, strict_mode, instances, migration>>

\* lines 141-159: find_aliases_and_tables at the next node of the pre-pass,
\* which goes on into node.expressions; after the last node the transform
\* starts at the root
PreprocessStep ==
    /\ pc = "preprocess"
    /\ LET node == ast[Head(todo)]
           rest == node.expressions \o Tail(todo)
       IN
        /\ SetRegistries(find_aliases_and_tables(node))
        /\ todo' = IF rest = <<>> THEN <<1>> ELSE rest
        /\ pc' = IF rest = <<>> THEN "transform" ELSE "preprocess"
    /\ UNCHANGED <<dialect, strict_mode, query, explain, ast, sanitized, ret,
                   trace, calls, instances, first, returned, migration>>

\* line 352 and the comment of lines 320-321: transform calls
\* _anonymize_node on the next node, puts the node returned in its place,
\* and goes on into the children only when the callback returned the very
\* node it was given
TransformStep ==
    /\ pc = "transform"
    /\ LET i == Head(todo)
           r == _anonymize_node(sanitized[i])
           children == sanitized[i].expressions \o sanitized[i].args
           rest == IF r.is_arg THEN children \o Tail(todo) ELSE Tail(todo)
       IN
        /\ SetRegistries(r.registries)
        /\ sanitized' = [sanitized EXCEPT ![i] = r.node]
        /\ trace' = Append(trace, [op |-> "_anonymize_node", node |-> sanitized[i],
                                   result |-> r.node,
                                   printed |-> column_warnings(sanitized[i])])
        /\ todo' = rest
        /\ pc' = IF rest = <<>> THEN "print" ELSE "transform"
    /\ UNCHANGED <<dialect, strict_mode, query, explain, ast, ret, calls,
                   instances, first, returned, migration>>

\* lines 355 and 369-385: print the tree, build the log, return
SanitizeEnd ==
    /\ pc = "print"
    /\ UNCHANGED <<dialect, strict_mode, registries, query, explain, ast, todo,
                   sanitized, trace, instances, migration>>
    /\ returned' = IF explain THEN hand_out(returned, transformation_log(explain))
                    ELSE returned
    /\ Return(sql(sanitized, 1), transformation_log(explain), Registries)

\* get_transformation_log(), lines 388-403
GetTransformationLog ==
    /\ pc = "idle"
    /\ returned' = hand_out(returned, transformation_log(TRUE))
    /\ UNCHANGED <<dialect, strict_mode, registries, run, trace, calls, instances,
                   first, migration>>

Next ==
    \/ \E d \in DialectArgs, s \in BOOLEAN : Construct(d, s)
    \/ \E q \in DOMAIN Queries, e \in BOOLEAN : SanitizeBegin(q, e)
    \/ PreprocessStep
    \/ TransformStep
    \/ SanitizeEnd
    \/ GetTransformationLog

Spec == Init /\ [][Next]_vars

---------------------------------------------------------------------------
(* SpecSchema: anonymize_schema of src/sql_anonymizer_schema.py.  A column *)
(* descriptor is modelled by the column's name: type, nullability, default *)
(* and key flag take no part in the naming.                                *)

\* the variables of the query engine
engine == <<dialect, strict_mode, registries, run, trace, calls, instances, first,
            returned>>

\* the backends anonymize_schema knows
DbTypes == {"sqlite", "postgres", "mysql"}

\* the table names and the column lists the catalogs of the model draw from
TableNames == {"users", "orders", "items"}

ColumnLists == {<<"id">>, <<"id", "name", "email">>, <<"email", "id">>}

\* the catalogs: up to MaxTables tables of distinct names, in catalog order
Catalogs ==
    {c \in UNION {[1 .. n -> [name : TableNames, columns : ColumnLists]] :
                     n \in 0 .. MaxTables} :
        \A i, j \in DOMAIN c : c[i].name = c[j].name => i = j}

\* the names bound in the frame of anonymize_schema, which is what locals()
\* holds at lines 459-469; the modules psycopg2 and mysql are globals
Locals ==
    {"input_path", "output_path", "log_path", "dbtype", "host", "database", "user",
     "password", "port", "table_mapping", "column_mappings", "table_counter",
     "generated_sql_statements", "output_dir", "conn_input", "cursor_input",
     "conn_output", "cursor_output", "conn_params", "conn_config", "db_schema",
     "original_table_name", "column_schemas", "anonymized_table_name",
     "original_column_names", "anonymized_column_names_list", "col_counter", "col",
     "original_col_name", "anonymized_col_name", "create_table_ast", "create_sql",
     "insert_placeholder", "output_sql_path", "f", "stmt", "e"}

\* 'name' in locals()
in_locals(name) == name \in Locals

\* isinstance(e, class) for the exception classes of the model; "Exception"
\* stands for any other subclass of Exception when it is the class raised
IsInstance(e, class) == class = "Exception" \/ e = class

\* lines 453-481: the except clause that catches e, named by the line's class
except_clause(e) ==
    IF IsInstance(e, "sqlite3.Error") THEN "sqlite3.Error"
    ELSE IF IsInstance(e, IF in_locals("psycopg2") THEN "psycopg2.Error"
                          ELSE "Exception")
    THEN "psycopg2.Error"
    ELSE IF IsInstance(e, IF in_locals("mysql") /\ in_locals("connector")
                          THEN "mysql.connector.Error" ELSE "Exception")
    THEN "mysql.connector.Error"
    ELSE IF IsInstance(e, "ImportError") THEN "ImportError"
    ELSE "Exception"

\* return {"error": ...}
ErrorResult(text) == [kind |-> "return", value |-> [error |-> text]]

\* raise e
Raised(e) == [kind |-> "raise", value |-> [exception |-> e]]

\* lines 453-486: what the handler of the clause does: whether it removes
\* the output file when it is there, and how the call will be left
handler(clause, e) ==
    CASE clause = "sqlite3.Error" ->
            [remove |-> dbtype = "sqlite", outcome |-> ErrorResult("SQLite error")]
      [] clause = "psycopg2.Error" ->
            [remove |-> FALSE,
             outcome |-> IF in_locals("psycopg2") /\ IsInstance(e, "psycopg2.Error")
                         THEN ErrorResult("PostgreSQL error") ELSE Raised(e)]
      [] clause = "mysql.connector.Error" ->
            [remove |-> FALSE,
             outcome |-> IF in_locals("mysql") /\ in_locals("connector")
                            /\ IsInstance(e, "mysql.connector.Error")
                         THEN ErrorResult("MySQL error") ELSE Raised(e)]
      [] clause = "ImportError" ->
            [remove |-> dbtype = "sqlite", outcome |-> ErrorResult("Missing dependency")]
      [] OTHER ->
            [remove |-> dbtype = "sqlite",
             outcome |-> ErrorResult("An unexpected error occurred")]

\* lines 489-493 with the connections closed only when nothing was raised
close_unless_failed(conn) == IF conn = "open" /\ exc = None THEN "closed" ELSE conn

\* lines 489-493: if conn: conn.close()
close(conn) == IF conn = "open" THEN "closed" ELSE conn

\* lines 395-404 with col_counter going on from the tables done before in
\* place of restarting at 0
anonymized_column_names_list_table_counter(column_schemas) ==
    [i \in DOMAIN column_schemas |-> Placeholder("col", table_counter + i)]

\* lines 395-404: col_1, col_2, ... for the columns of one table
anonymized_column_names_list(column_schemas) ==
    [i \in DOMAIN column_schemas |-> Placeholder("col", i)]

\* lines 399-403: column_mappings[original_table_name] for one table
column_mapping(column_schemas) ==
    LET names == anonymized_column_names_list(column_schemas) IN
    [original_col_name \in {column_schemas[i] : i \in DOMAIN column_schemas} |->
        names[CHOOSE i \in DOMAIN column_schemas :
                 /\ column_schemas[i] = original_col_name
                 /\ \A j \in DOMAIN column_schemas :
                       column_schemas[j] = original_col_name => j <= i]]

\* build_create_table_ast: the table and the column definitions, in order
build_create_table_ast(anonymized_table_name, column_schemas, mapping) ==
    [table |-> anonymized_table_name,
     columns |-> [i \in DOMAIN column_schemas |-> mapping[column_schemas[i]]]]

\* copy_table_data, lines 92-110: the SELECT list and the INSERT list
copy_table_data(original_table, anonymized_table, original_names, anonymized_names) ==
    [select_from |-> original_table, select |-> original_names,
     insert_into |-> anonymized_table, insert |-> anonymized_names]

\* the error the backend's driver raises
backend_error(t) ==
    CASE t = "sqlite" -> "sqlite3.Error"
      [] t = "postgres" -> "psycopg2.Error"
      [] OTHER -> "mysql.connector.Error"

\* lines 336-376: how opening the input connection may end.  For postgres
\* and mysql the driver's name may be unbound (its import failed, lines
\* 9-21: NameError at line 348 or 363) or None (ImportError raised at line
\* 349 or 364).
connect_results(t) ==
    IF t = "sqlite" THEN {"ok", "sqlite3.Error"}
    ELSE {"ok", backend_error(t), "NameError", "ImportError"}

\* an exception leaves the try block
Raise(e) == exc' = e /\ spc' = "except"

\* anonymize_schema(dbtype=t, ...) on a data store whose catalog is c,
\* lines 306-332; same tells whether output_path is the path of the input
\* file, which line 320 then removes as the output file that is there
AnonymizeSchema(t, c, same) ==
    /\ spc \in {"idle", "done"}
    /\ dbtype' = t
    /\ catalog' = c
    /\ table_mapping' = EmptyDict
    /\ column_mappings' = EmptyDict
    /\ table_counter' = 0
    /\ generated' = <<>>
    /\ copies' = <<>>
    /\ db_schema' = <<>>
    /\ output_exists' = IF t = "sqlite" THEN FALSE ELSE output_exists
    /\ same_file' = same
    /\ input_file' = IF t = "sqlite" /\ same THEN "removed" ELSE "intact"
    /\ conn_input' = None
    /\ conn_output' = None
    /\ exc' = None
    /\ outcome' = NoOutcome
    /\ spc' = "connect_input"
    /\ UNCHANGED engine

\* lines 337, 357, 373: the input connection; sqlite3.connect creates the
\* file of a path that has none
ConnectInput ==
    /\ spc = "connect_input"
    /\ \E result \in connect_results(dbtype) :
          IF result = "ok"
          THEN /\ conn_input' = "open"
               /\ output_exists' = (output_exists \/ (dbtype = "sqlite" /\ same_file))
               /\ spc' = IF dbtype = "sqlite" THEN "connect_output" ELSE "extract"
               /\ exc' = exc
          ELSE /\ conn_input' = conn_input
               /\ output_exists' = output_exists
               /\ Raise(result)
    /\ UNCHANGED <<engine, dbtype, catalog, db_schema, conn_output, same_file,
                   input_file, table_counter, table_mapping, column_mappings, generated, copies,
                   outcome>>

\* line 343: the output connection, which creates the output file
ConnectOutput ==
    /\ spc = "connect_output"
    /\ \E result \in {"ok", "sqlite3.Error"} :
          IF result = "ok"
          THEN /\ conn_output' = "open"
               /\ output_exists' = TRUE
               /\ spc' = "extract"
               /\ exc' = exc
          ELSE /\ conn_output' = conn_output
               /\ output_exists' = output_exists
               /\ Raise(result)
    /\ UNCHANGED <<engine, dbtype, catalog, db_schema, conn_input, same_file,
                   input_file, table_counter, table_mapping, column_mappings,
                   generated, copies, outcome>>

\* line 381: get_db_schema_info reads the catalog of what the input
\* connection is open on
ExtractSchema ==
    /\ spc = "extract"
    /\ \E result \in {"ok", backend_error(dbtype)} :
          IF result = "ok"
          THEN /\ db_schema' = IF input_file = "intact" THEN catalog ELSE <<>>
               /\ spc' = "tables"
               /\ exc' = exc
          ELSE /\ db_schema' = db_schema
               /\ Raise(result)
    /\ UNCHANGED <<engine, dbtype, catalog, conn_input, conn_output, output_exists,
                   same_file, input_file, table_counter, table_mapping, column_mappings, generated, copies,
                   outcome>>

\* lines 386-435: one turn of the loop over db_schema.items().  The turn
\* may end in build_create_table_ast raising, in the CREATE TABLE or the row
\* copy failing on sqlite, or well, with or without rows to copy.
ProcessTable ==
    /\ spc = "tables"
    /\ table_counter < Len(db_schema)
    /\ LET original_table_name == db_schema[table_counter + 1].name
           column_schemas == db_schema[table_counter + 1].columns
           anonymized_table_name == Placeholder("table", table_counter + 1)
           mapping == column_mapping(column_schemas)
           create_sql == build_create_table_ast(anonymized_table_name,
                                                column_schemas, mapping)
           copy == copy_table_data(original_table_name, anonymized_table_name,
                                   column_schemas,
                                   anonymized_column_names_list(column_schemas))
       IN
        /\ table_counter' = table_counter + 1
        /\ table_mapping' = Put(table_mapping, original_table_name,
                                anonymized_table_name)
        /\ column_mappings' = Put(column_mappings, original_table_name, mapping)
        /\ \E result \in IF dbtype = "sqlite"
                         THEN {"ok", "no rows", "build", "execute", "copy"}
                         ELSE {"ok", "build"} :
              CASE result = "build" ->
                      /\ Raise("Exception")
                      /\ UNCHANGED <<generated, copies>>
                [] result = "execute" ->
                      /\ Raise("sqlite3.Error")
                      /\ UNCHANGED <<generated, copies>>
                [] result = "copy" ->
                      /\ Raise("sqlite3.Error")
                      /\ generated' = Append(generated, create_sql)
                      /\ UNCHANGED copies
                [] result = "no rows" ->
                      /\ generated' = Append(generated, create_sql)
                      /\ UNCHANGED <<copies, spc, exc>>
                [] OTHER ->
                      /\ generated' = Append(generated, create_sql)
                      /\ copies' = IF dbtype = "sqlite" THEN Append(copies, copy)
                                   ELSE copies
                      /\ UNCHANGED <<spc, exc>>
    /\ UNCHANGED <<engine, dbtype, catalog, db_schema, conn_input, conn_output,
                   output_exists, same_file, input_file, outcome>>

\* lines 439-448: commit on sqlite, else write the script
CommitOrWrite ==
    /\ spc = "tables"
    /\ table_counter = Len(db_schema)
    /\ \E result \in {"ok", IF dbtype = "sqlite" THEN "sqlite3.Error" ELSE "Exception"} :
          IF result = "ok"
          THEN spc' = "finally" /\ exc' = exc
          ELSE Raise(result)
    /\ UNCHANGED <<engine, dbtype, catalog, db_schema, conn_input, conn_output,
                   output_exists, same_file, input_file, table_counter,
                   table_mapping, column_mappings, generated, copies, outcome>>

\* lines 453-486: the except clause that catches the exception
Except ==
    /\ spc = "except"
    /\ LET h == handler(except_clause(exc), exc) IN
        /\ output_exists' = IF h.remove THEN FALSE ELSE output_exists
        /\ outcome' = h.outcome
    /\ spc' = "finally"
    /\ UNCHANGED <<engine, dbtype, catalog, db_schema, conn_input, conn_output,
                   same_file, input_file, table_counter, table_mapping,
                   column_mappings, generated, copies, exc>>

\* lines 487-511: the finally block, then the return of the handler, the
\* exception raised again, or the mapping
Finally ==
    /\ spc = "finally"
    /\ conn_input' = close(conn_input)
    /\ conn_output' = close(conn_output)
    /\ outcome' = IF outcome.kind = "none"
                  THEN [kind |-> "return",
                        value |-> [table_mapping |-> table_mapping,
                                   column_mappings_per_table |-> column_mappings]]
                  ELSE outcome
    /\ spc' = "done"
    /\ UNCHANGED <<engine, dbtype, catalog, db_schema, output_exists, same_file,
                   input_file, table_counter, table_mapping, column_mappings,
                   generated, copies, exc>>

NextSchema ==
    \/ \E t \in DbTypes, c \in Catalogs :
          \E same \in IF t = "sqlite" THEN BOOLEAN ELSE {FALSE} :
              AnonymizeSchema(t, c, same)
    \/ ConnectInput
    \/ ConnectOutput
    \/ ExtractSchema
    \/ ProcessTable
    \/ CommitOrWrite
    \/ Except
    \/ Finally

SpecSchema == InitDefault /\ [][NextSchema]_vars

---------------------------------------------------------------------------
(* The claims. *)

\* the direct call the step makes, when it makes one
IsRegistryCall == Len(trace') = Len(trace) + 1 /\ trace'[Len(trace')].op = "_get_placeholder"

\* C1: within one run, two calls of _get_placeholder with the same (type,
\* original) return the same placeholder; a call for an original whose key
\* is not in the type's map adds one to that type's counter, returns
\* "{type}_{counter}" and stores it, leaving every other entry alone; a call
\* for a known original changes no map and no counter.
C1_GetPlaceholderStable ==
    /\ [](\A i, j \in DOMAIN trace :
            /\ trace[i].op = "_get_placeholder" /\ trace[j].op = "_get_placeholder"
            /\ trace[i].type = trace[j].type
            /\ trace[i].original_value = trace[j].original_value
            => trace[i].placeholder = trace[j].placeholder)
    /\ [][IsRegistryCall =>
            LET call == trace'[Len(trace')]
                t == call.type
                key == IF t \in {"database", "schema", "table"}
                       THEN lower(call.original_value) ELSE call.original_value
            IN
            IF key \in DOMAIN mappings[t]
            THEN /\ call.placeholder = mappings[t][key]
                 /\ mappings' = mappings
                 /\ counters' = counters
            ELSE /\ counters'[t] = counters[t] + 1
                 /\ call.placeholder = t \o "_" \o ToString(counters'[t])
                 /\ DOMAIN mappings'[t] = DOMAIN mappings[t] \cup {key}
                 /\ mappings'[t][key] = call.placeholder
                 /\ \A k \in DOMAIN mappings[t] : mappings'[t][k] = mappings[t][k]
                 /\ \A u \in Types \ {t} :
                        mappings'[u] = mappings[u] /\ counters'[u] = counters[u]
       ]_vars

\* C1 witness: an original was asked for twice, with the allocation of
\* another original of the same type in between
C1_Witness ==
    \E i, j, k \in DOMAIN trace :
        /\ i < k /\ k < j
        /\ trace[i].type = trace[j].type /\ trace[i].type = trace[k].type
        /\ trace[i].original_value = trace[j].original_value
        /\ trace[i].placeholder = trace[j].placeholder
        /\ trace[k].placeholder # trace[i].placeholder
        /\ counters[trace[i].type] = 2

\* C4: originals of type database, schema or table that differ only in
\* letter case get one placeholder; originals of type string, number or
\* email that differ only in letter case get two.
C4_CaseFolding ==
    \A i, j \in DOMAIN trace :
        /\ trace[i].op = "_get_placeholder" /\ trace[j].op = "_get_placeholder"
        /\ trace[i].type = trace[j].type
        /\ trace[i].original_value # trace[j].original_value
        /\ lower(trace[i].original_value) = lower(trace[j].original_value)
        => IF trace[i].type \in {"database", "schema", "table"}
           THEN trace[i].placeholder = trace[j].placeholder
           ELSE trace[i].placeholder # trace[j].placeholder

\* C4 witness: "Orders" and "orders" were both asked for as a table and
\* both as a string
C4_Witness ==
    /\ \E i, j \in DOMAIN trace :
          /\ trace[i].type = "table" /\ trace[j].type = "table"
          /\ trace[i].original_value = "Orders" /\ trace[j].original_value = "orders"
    /\ \E i, j \in DOMAIN trace :
          /\ trace[i].type = "string" /\ trace[j].type = "string"
          /\ trace[i].original_value = "Orders" /\ trace[j].original_value = "orders"

\* no two keys of the dict share a value
Injective(d) == \A k1, k2 \in DOMAIN d : d[k1] = d[k2] => k1 = k2

\* C3: in every state of a run no map of the instance gives one
\* placeholder to two distinct original keys: the six maps of
\* self.mappings, the original-table-path map shown in the log, the global
\* column map and each per-table column map.
C3_PlaceholdersUnique ==
    /\ \A t \in Types : Injective(mappings[t])
    /\ Injective(_original_table_path_to_anonymized_map)
    /\ Injective(_global_column_map)
    /\ \A table_path \in DOMAIN _per_table_column_maps :
          Injective(_per_table_column_maps[table_path])

\* the two calls are about the same original: the same literal, the same
\* container name, the same table path, or the same column of the one table
\* of the statement
SameOriginal(m, n) ==
    /\ m.kind = n.kind
    /\ m.final = "Identifier" /\ n.final = "Identifier"
    /\ m.name = n.name
    /\ CASE m.kind = "Literal" ->
                m.is_string = n.is_string /\ m.is_number = n.is_number
         [] m.kind = "Table" -> m.parts = n.parts
         [] m.kind = "Column" ->
                /\ Cardinality(DOMAIN _original_table_path_to_anonymized_map) = 1
                /\ \A c \in {m, n} :
                      c.qualifier # None => lower(c.qualifier) \in DOMAIN _alias_to_table_map
         [] m.kind \in {"Database", "Schema"} -> TRUE
         [] OTHER -> FALSE

\* C2: within one run every rewritten occurrence of the same original gets
\* the same placeholder, whatever the order of the visits; a column of the
\* statement's one table gets one placeholder whether it is written
\* alias.col or col.
C2_SameOriginalSamePlaceholder ==
    \A i, j \in DOMAIN trace :
        /\ trace[i].op = "_anonymize_node" /\ trace[j].op = "_anonymize_node"
        /\ SameOriginal(trace[i].node, trace[j].node)
        => trace[i].result.name = trace[j].result.name

\* C10: an unqualified column visited in a statement with a single table is
\* recorded in that table's column map and gets that map's col_n, not a
\* global_col_n, also when it is the first reference to the column.
C10_UnqualifiedSingleTable ==
    \A i \in DOMAIN trace :
        LET node == trace[i].node
            tables == DOMAIN _original_table_path_to_anonymized_map
        IN
        /\ trace[i].op = "_anonymize_node"
        /\ node.kind = "Column" /\ node.qualifier = None
        /\ node.name # None /\ node.final = "Identifier"
        /\ Cardinality(tables) = 1
        => \A table_path \in tables :
              /\ table_path \in DOMAIN _per_table_column_maps
              /\ lower(node.name) \in DOMAIN _per_table_column_maps[table_path]
              /\ trace[i].result.name
                    = _per_table_column_maps[table_path][lower(node.name)]
              /\ lower(node.name) \notin DOMAIN _global_column_map

\* sanitize_sql has returned for a query that parsed
ReturnedParsed ==
    /\ pc = "idle" /\ ret # NoResult
    /\ query \in DOMAIN Queries /\ Queries[query].tree # <<>>

\* sanitize_sql has returned for a query that did not parse
ReturnedFailed ==
    /\ pc = "idle" /\ ret # NoResult
    /\ query \in DOMAIN Queries /\ Queries[query].tree = <<>>

\* sanitize_sql has returned for the arguments of the recorded first call
\* (explain apart)
SameInputAsFirst ==
    /\ pc = "idle" /\ ret # NoResult /\ first.set
    /\ first.dialect = dialect /\ first.query = query

\* C9: when sanitize_sql returns, every column written q.col whose q is the
\* alias (or, without alias, the name) of a table of the statement is
\* recorded in that table's column map and not in the global fallback map;
\* for SELECT a.x FROM orders a, x is recorded under orders.
C9_QualifiedColumnInTableMap ==
    ReturnedParsed =>
        \A c, t \in DOMAIN ast :
            /\ ast[c].kind = "Column" /\ ast[c].qualifier # None
            /\ ast[t].kind = "Table"
            /\ lower(alias_name(ast[t])) = lower(ast[c].qualifier)
            => LET table_path == original_table_path(ast[t]) IN
               /\ table_path \in DOMAIN _per_table_column_maps
               /\ lower(ast[c].name) \in DOMAIN _per_table_column_maps[table_path]
               /\ lower(ast[c].name) \notin DOMAIN _global_column_map

\* C5: sanitize_sql starts from empty registries whatever the instance did
\* before, and a call on a used instance returns the text and the log that
\* the same call returned on a fresh instance of the same dialect and
\* strict mode.
C5_ReusedInstanceLikeFresh ==
    /\ (pc = "preprocess" /\ todo = <<1>> => InitRegistries)
    /\ (SameInputAsFirst /\ first.strict_mode = strict_mode /\ first.explain = explain
          => ret = first.ret)

\* C5 witness: the instance that made the recorded first call has returned
\* from a later call with the same arguments, placeholders allocated
C5_Witness ==
    /\ SameInputAsFirst /\ first.explain = explain /\ explain
    /\ first.instance = instances /\ calls = 2
    /\ counters["table"] = 1
    /\ ret = first.ret

\* C6: when the parse fails, sanitize_sql returns the text it was given and
\* a log whose only key is error, for either value of explain, and no
\* registry holds an entry and every counter is 0.
C6_ParseFailure ==
    ReturnedFailed =>
        /\ ret.text = Queries[query].text
        /\ DOMAIN ret.log = {"error"}
        /\ \A t \in Types : mappings[t] = EmptyDict /\ counters[t] = 0
        /\ _alias_to_table_map = EmptyDict
        /\ _original_table_path_to_anonymized_map = EmptyDict
        /\ _per_table_column_maps = EmptyDict
        /\ _per_table_column_counters = EmptyDict
        /\ _global_column_map = EmptyDict
        /\ _global_column_counter = 0

\* C6 witness: a failed parse with explain set, on an instance whose
\* recorded first call had allocated a placeholder
C6_Witness ==
    /\ ReturnedFailed /\ explain /\ calls = 2
    /\ first.set /\ first.instance = instances
    /\ first.registries.counters["email"] = 1

\* C7: for an input that parses, explain = FALSE returns an empty log and
\* explain = TRUE a log of exactly the three sections, and the two calls
\* return the same text and leave the same registries.
C7_ExplainOnlyGatesLog ==
    ReturnedParsed =>
        /\ DOMAIN ret.log =
              IF explain
              THEN {"identifier_mappings", "column_mappings_per_table", "literal_mappings"}
              ELSE {}
        /\ (SameInputAsFirst /\ first.strict_mode = strict_mode
               /\ first.explain # explain
              => ret.text = first.ret.text /\ Registries = first.registries)

\* C7 witness: a call with explain = TRUE has returned after the same query
\* was run with explain = FALSE, both having allocated table placeholders
C7_Witness ==
    /\ ReturnedParsed /\ SameInputAsFirst /\ explain /\ ~first.explain
    /\ counters["table"] = 1
    /\ ret.text = first.ret.text

\* C8: the first call on a fresh instance returns the text and the log that
\* the same text returned on another fresh instance of the same dialect.
C8_FreshInstancesAgree ==
    SameInputAsFirst /\ first.explain = explain
        /\ calls = 1 /\ first.instance # instances
        => ret = first.ret

\* C8 witness: two fresh instances have each run the same statement with
\* explain = TRUE, and each allocated a table placeholder
C8_Witness ==
    /\ SameInputAsFirst /\ first.explain = explain /\ explain
    /\ calls = 1 /\ first.instance # instances
    /\ counters["table"] = 1 /\ first.registries.counters["table"] = 1
    /\ "identifier_mappings" \in DOMAIN ret.log

\* the callback invocation the step makes, when it makes one
IsVisit == Len(trace') = Len(trace) + 1 /\ trace'[Len(trace')].op = "_anonymize_node"

\* the tables of the statement whose column map holds the name
TablesHolding(name) ==
    {table_path \in DOMAIN _original_table_path_to_anonymized_map :
        /\ table_path \in DOMAIN _per_table_column_maps
        /\ lower(name) \in DOMAIN _per_table_column_maps[table_path]}

\* C11: an unqualified column whose lower-cased name is held by the column
\* map of no table, or of more than one table, of the statement gets its
\* placeholder global_col_n from the global fallback map, and the reference
\* changes no per-table column map and no per-table counter.
C11_AmbiguousToGlobal ==
    [][IsVisit =>
          LET call == trace'[Len(trace')]
              node == call.node
          IN
          /\ node.kind = "Column" /\ node.qualifier = None
          /\ node.name # None /\ node.final = "Identifier"
          /\ Cardinality(TablesHolding(node.name)) # 1
          => /\ lower(node.name) \in DOMAIN _global_column_map'
             /\ call.result.name = _global_column_map'[lower(node.name)]
             /\ \E n \in 1 .. _global_column_counter' :
                   call.result.name = "global_col_" \o ToString(n)
             /\ _per_table_column_maps' = _per_table_column_maps
             /\ _per_table_column_counters' = _per_table_column_counters
      ]_vars

\* C11 witness: x is held by the column maps of two tables, and the
\* unqualified x visited after them went to the global map with a warning
C11_Witness ==
    /\ Len(trace) = 3
    /\ trace[3].node = ColumnNode(None, "x")
    /\ trace[3].result.name = "global_col_1"
    /\ trace[3].printed # <<>>
    /\ Cardinality(TablesHolding("x")) = 2
    /\ _global_column_map = Put(EmptyDict, "x", "global_col_1")

\* C12: a run with strict_mode = TRUE and a run with strict_mode = FALSE
\* of the same input return the same text and the same log and leave the
\* same registries; strict mode changes what is printed and nothing else.
C12_StrictModeOnlyDiagnostics ==
    SameInputAsFirst /\ first.explain = explain /\ first.strict_mode # strict_mode
        => ret = first.ret /\ Registries = first.registries

\* C12 witness: the same column was rewritten without strict mode and then
\* with it, the strict run printing its diagnostic, with one result
C12_Witness ==
    /\ SameInputAsFirst /\ first.explain = explain /\ explain
    /\ strict_mode /\ ~first.strict_mode
    /\ Len(trace) = 1 /\ trace[1].node.kind = "Column" /\ trace[1].printed # <<>>
    /\ _global_column_counter = 1
    /\ ret = first.ret

\* C13: a literal whose text contains '@' is classified as email and never
\* as string: its placeholder is the email_n stored under its lower-cased
\* text, the string map and the string counter are left alone, and two such
\* literals that differ only in letter case share one placeholder.
C13_EmailNeverString ==
    /\ [](\A i, j \in DOMAIN trace :
            /\ trace[i].op = "_anonymize_node" /\ trace[j].op = "_anonymize_node"
            /\ trace[i].node.kind = "Literal" /\ trace[j].node.kind = "Literal"
            /\ HasAt(trace[i].node.name) /\ HasAt(trace[j].node.name)
            /\ lower(trace[i].node.name) = lower(trace[j].node.name)
            => trace[i].result.name = trace[j].result.name)
    /\ [][IsVisit =>
            LET call == trace'[Len(trace')]
                node == call.node
            IN
            node.kind = "Literal" /\ HasAt(node.name)
            => /\ lower(node.name) \in DOMAIN mappings'["email"]
               /\ call.result.name = mappings'["email"][lower(node.name)]
               /\ \E n \in 1 .. counters'["email"] :
                     call.result.name = "email_" \o ToString(n)
               /\ mappings'["string"] = mappings["string"]
               /\ counters'["string"] = counters["string"]
       ]_vars

\* C13 witness: 'Bob@X.com' and 'bob@x.com' were both rewritten to email_1
\* and a plain string to string_1
C13_Witness ==
    /\ \E i, j \in DOMAIN trace :
          /\ trace[i].node = StringNode("Bob@X.com") /\ trace[j].node = StringNode("bob@x.com")
          /\ trace[i].result.name = "email_1" /\ trace[j].result.name = "email_1"
    /\ counters["email"] = 1 /\ counters["string"] = 1
    /\ mappings["string"] = Put(EmptyDict, "Abc", "string_1")

\* C19: when the rewrite starts, and from then on until sanitize_sql
\* returns, every Table node of the statement has its path in the
\* table-path map and its alias (or its own name) bound to that path in the
\* alias map, so that the rewrite of a Table node finds its placeholder.
C19_PrepassCoversEveryTable ==
    (pc \in {"transform", "print"} \/ ReturnedParsed) =>
        \A t \in DOMAIN ast :
            ast[t].kind = "Table" =>
                LET table_path == original_table_path(ast[t]) IN
                /\ table_path \in DOMAIN _original_table_path_to_anonymized_map
                /\ lower(alias_name(ast[t])) \in DOMAIN _alias_to_table_map
                /\ _alias_to_table_map[lower(alias_name(ast[t]))] = table_path

\* C20: when sanitize_sql returns, the rewrite callback has been called
\* once for every node of the tree, the tree returned has the nodes of the
\* tree parsed, and every Column and Literal node, at the root or below,
\* carries a placeholder in place of its original.
C20_RewriteVisitsEveryNode ==
    ReturnedParsed =>
        /\ Len(trace) = Len(ast)
        /\ Len(sanitized) = Len(ast)
        /\ \A i \in DOMAIN ast :
              /\ sanitized[i].kind = ast[i].kind
              /\ (ast[i].kind \in {"Column", "Literal"} /\ ast[i].name # None
                      => sanitized[i].name # ast[i].name)

\* the content of the log handed out, as its holder reads it now
LogSeen == IF returned.live THEN transformation_log(TRUE) ELSE returned.frozen

\* C18: a transformation log handed out by sanitize_sql or by
\* get_transformation_log keeps the content it had when it was handed out,
\* whatever is called on the instance afterwards.
C18_LogIsSnapshot == returned.set => LogSeen = returned.at_return

\* C18 witness: a log that held a table placeholder was handed out, and the
\* same instance has since completed another call that allocated an email
\* placeholder
C18_Witness ==
    /\ returned.set /\ ~returned.live
    /\ returned.at_return.identifier_mappings.table # EmptyDict
    /\ instances = 1 /\ ReturnedParsed /\ calls = 2
    /\ counters["email"] = 1
    /\ LogSeen = returned.at_return

\* C14: in a migration the k-th table of the catalog is named table_k and
\* the i-th column of each table col_i, the count restarting with every
\* table; the CREATE TABLE of a table lists col_1, col_2, ... in that order,
\* and a row copy selects the original columns in catalog order and inserts
\* into the placeholders of those columns, position by position.
C14_SchemaNamesPositional ==
    /\ \A k \in 1 .. table_counter :
          LET original == db_schema[k] IN
          /\ table_mapping[original.name] = "table_" \o ToString(k)
          /\ \A i \in DOMAIN original.columns :
                column_mappings[original.name][original.columns[i]]
                   = "col_" \o ToString(i)
    /\ \A k \in DOMAIN generated :
          /\ generated[k].table = table_mapping[db_schema[k].name]
          /\ Len(generated[k].columns) = Len(db_schema[k].columns)
          /\ \A i \in DOMAIN generated[k].columns :
                /\ generated[k].columns[i] = "col_" \o ToString(i)
                /\ generated[k].columns[i]
                      = column_mappings[db_schema[k].name][db_schema[k].columns[i]]
    /\ \A c \in DOMAIN copies :
          \E k \in DOMAIN generated :
              /\ copies[c].select_from = db_schema[k].name
              /\ copies[c].insert_into = generated[k].table
              /\ copies[c].select = db_schema[k].columns
              /\ Len(copies[c].insert) = Len(copies[c].select)
              /\ \A i \in DOMAIN copies[c].select :
                    /\ copies[c].insert[i]
                          = column_mappings[db_schema[k].name][copies[c].select[i]]
                    /\ copies[c].insert[i] = generated[k].columns[i]

\* C14 witness: a sqlite migration has returned its mapping after creating
\* and copying a table of two columns and then a table of three
C14_Witness ==
    /\ spc = "done" /\ dbtype = "sqlite" /\ outcome.kind = "return"
    /\ DOMAIN outcome.value = {"table_mapping", "column_mappings_per_table"}
    /\ Len(copies) = 2 /\ Len(generated) = 2
    /\ db_schema[1].columns = <<"email", "id">>
    /\ db_schema[2].columns = <<"id", "name", "email">>
    /\ copies[2].insert = <<"col_1", "col_2", "col_3">>

\* C15: when anonymize_schema is left, by a return of the mapping, by a
\* return of an error result or by an exception, no connection it opened
\* is still open.
C15_ConnectionsClosed ==
    spc = "done" => conn_input # "open" /\ conn_output # "open"

\* C15 witness: a sqlite migration was left by an exception after both
\* connections had been opened, and both are closed
C15_Witness ==
    /\ spc = "done" /\ outcome.kind = "raise"
    /\ conn_input = "closed" /\ conn_output = "closed"

\* C16: when a sqlite migration that failed is left, by an error result or
\* by an exception of any kind, the output file is not there.
C16_OutputRemovedOnFailure ==
    spc = "done" /\ dbtype = "sqlite" /\ exc # None => ~output_exists

\* C17: a migration that met an error of the backend or of its driver
\* (sqlite, postgres or mysql error, missing driver) is left by the return
\* of a result that holds an error description, never by an exception.
C17_BackendErrorsReturned ==
    /\ spc = "done"
    /\ exc \in {"sqlite3.Error", "psycopg2.Error", "mysql.connector.Error",
                "ImportError", "NameError"}
    => outcome.kind = "return" /\ DOMAIN outcome.value = {"error"}

\* C21: the rewrite of a Table node reads the table-path map and writes no
\* registry: the base name becomes the placeholder stored for the path, or
\* stays the original name when the path has no entry, and the alias is
\* kept.
C21_TableRewriteOnlyReads ==
    [][IsVisit =>
          LET call == trace'[Len(trace')]
              node == call.node
              table_path == original_table_path(node)
          IN
          node.kind = "Table" /\ node.final = "Identifier"
          => /\ call.result.name =
                   IF table_path \in DOMAIN _original_table_path_to_anonymized_map
                   THEN _original_table_path_to_anonymized_map[table_path]
                   ELSE node.name
             /\ call.result.alias = node.alias
             /\ UNCHANGED registries
      ]_vars

\* C22: the alias map is keyed by the lower-cased alias, or by the
\* lower-cased last part of the path when the table has no alias; the
\* pre-pass binds the key to the table it visits, in place of any earlier
\* binding and leaving the other keys alone; once the pre-pass is over the
\* rewrite does not write the map.
C22_AliasMapLastWriteWins ==
    /\ [](\A key \in DOMAIN _alias_to_table_map : lower(key) = key)
    /\ [][/\ \A node \in EdgeNodes :
                VPreprocess(node) /\ node.kind = "Table" =>
                    LET key == lower(alias_name(node)) IN
                    /\ DOMAIN _alias_to_table_map'
                          = DOMAIN _alias_to_table_map \cup {key}
                    /\ _alias_to_table_map'[key] = original_table_path(node)
                    /\ \A k \in DOMAIN _alias_to_table_map \ {key} :
                          _alias_to_table_map'[k] = _alias_to_table_map[k]
          /\ (pc = "transform" /\ pc' = "transform"
                => _alias_to_table_map' = _alias_to_table_map)
          /\ (VTransform => _alias_to_table_map' = _alias_to_table_map)
       ]_vars

\* C22 witness: orders AS a and customers AS A were both met by the
\* pre-pass, a is bound to customers, and the rewrite of a.x that followed
\* recorded x under customers
C22_Witness ==
    /\ pc = "transform"
    /\ {"orders", "customers"} \subseteq DOMAIN _original_table_path_to_anonymized_map
    /\ _alias_to_table_map = Put(EmptyDict, "a", "customers")
    /\ Len(trace) = 1 /\ trace[1].node = ColumnNode("a", "x")
    /\ _per_table_column_maps
          = Put(EmptyDict, "customers", Put(EmptyDict, "x", "col_1"))

\* C23: column placeholders are scoped per original table path.  The
\* pre-pass creates no column map; a column attributed to a table that has
\* no column map yet creates the map and the counter of that table and gets
\* col_1, whatever the other tables hold; a column attributed to a table
\* leaves the map and the counter of every other table, the global fallback
\* map and the global counter as they were.
C23_ColumnsScopedPerTable ==
    /\ [](pc = "preprocess" => _per_table_column_maps = EmptyDict)
    /\ [][IsVisit =>
            LET call == trace'[Len(trace')]
                node == call.node
                table_path == resolve_table_path(node)
            IN
            node.kind = "Column" /\ node.name # None /\ table_path # None
            => /\ DOMAIN _per_table_column_maps'
                     = DOMAIN _per_table_column_maps \cup {table_path}
               /\ DOMAIN _per_table_column_counters' = DOMAIN _per_table_column_maps'
               /\ (table_path \notin DOMAIN _per_table_column_maps
                      => /\ _per_table_column_maps'[table_path]
                               = Put(EmptyDict, lower(node.name), "col_1")
                         /\ _per_table_column_counters'[table_path] = 1
                         /\ (node.final = "Identifier"
                                => call.result.name = "col_1"))
               /\ \A other \in DOMAIN _per_table_column_maps \ {table_path} :
                     /\ _per_table_column_maps'[other] = _per_table_column_maps[other]
                     /\ _per_table_column_counters'[other]
                           = _per_table_column_counters[other]
               /\ _global_column_map' = _global_column_map
               /\ _global_column_counter' = _global_column_counter
       ]_vars

\* C23 witness: a.x was recorded as col_1 of orders, and customers.x after
\* it as col_1 of customers
C23_Witness ==
    /\ Len(trace) = 2
    /\ trace[1].node = ColumnNode("a", "x") /\ trace[1].result.name = "col_1"
    /\ trace[2].node = ColumnNode("customers", "x") /\ trace[2].result.name = "col_1"
    /\ _per_table_column_maps
          = Put(Put(EmptyDict, "orders", Put(EmptyDict, "x", "col_1")),
                "customers", Put(EmptyDict, "x", "col_1"))
    /\ _per_table_column_counters = Put(Put(EmptyDict, "orders", 1), "customers", 1)
    /\ _global_column_map = EmptyDict

\* the node has not the shape its handler expects: the identifier part of
\* a Database or Schema is not an Identifier, the final part of a Table or
\* Column is neither an Identifier nor a Star
UnexpectedShape(node) ==
    /\ node.kind \in {"Database", "Schema", "Table", "Column"}
    /\ node.final \notin {"Identifier", "Star"}

Dense(prefix, n) == {Placeholder(prefix, i) : i \in 1 .. n}

\* the values of the dict
Range(d) == {d[k] : k \in DOMAIN d}

\* the dict holds counter entries, whose placeholders are prefix_1 ..
\* prefix_counter
CountedBy(d, prefix, counter) ==
    /\ Cardinality(DOMAIN d) = counter
    /\ Range(d) = Dense(prefix, counter)

\* C25: in every state each counter is the number of entries of its map
\* and the placeholders of the map are prefix_1 .. prefix_counter: the six
\* maps of self.mappings with self.counters, each per-table column map with
\* its per-table counter (a table has the one exactly when it has the
\* other), and the global column map with the global column counter.
C25_CountersMatchMaps ==
    /\ \A t \in Types : CountedBy(mappings[t], t, counters[t])
    /\ DOMAIN _per_table_column_maps = DOMAIN _per_table_column_counters
    /\ \A table_path \in DOMAIN _per_table_column_maps :
          CountedBy(_per_table_column_maps[table_path], "col",
                    _per_table_column_counters[table_path])
    /\ CountedBy(_global_column_map, "global_col", _global_column_counter)

\* C25 witness: placeholders were allocated in a category map, in two
\* per-table column maps and in the global column map
C25_Witness ==
    /\ counters["table"] = 2
    /\ Cardinality(DOMAIN _per_table_column_maps) = 2
    /\ \E table_path \in DOMAIN _per_table_column_counters :
          _per_table_column_counters[table_path] = 1
    /\ _global_column_counter = 1

\* C26: in every state each entry of the table-path map is the entry of
\* the table map for the lower-cased path, the two maps have as many
\* entries, and no two column maps belong to paths that differ only in
\* letter case: such paths are one table to the engine.
C26_PathMapMatchesTableMap ==
    /\ \A table_path \in DOMAIN _original_table_path_to_anonymized_map :
          /\ lower(table_path) \in DOMAIN mappings["table"]
          /\ _original_table_path_to_anonymized_map[table_path]
                = mappings["table"][lower(table_path)]
    /\ Cardinality(DOMAIN _original_table_path_to_anonymized_map)
          = Cardinality(DOMAIN mappings["table"])
    /\ \A p, q \in DOMAIN _per_table_column_maps : lower(p) = lower(q) => p = q

\* C27: a column written q.col whose q is not bound in the alias map is
\* not attributed to a table by the name of the column: it is recorded in
\* the global fallback map, gets its placeholder from it, and leaves every
\* per-table column map as it was.
C27_UnboundQualifierToGlobal ==
    [][IsVisit =>
          LET call == trace'[Len(trace')]
              node == call.node
          IN
          /\ node.kind = "Column" /\ node.name # None /\ node.final = "Identifier"
          /\ node.qualifier # None
          /\ lower(node.qualifier) \notin DOMAIN _alias_to_table_map
          => /\ lower(node.name) \in DOMAIN _global_column_map'
             /\ call.result.name = _global_column_map'[lower(node.name)]
             /\ _per_table_column_maps' = _per_table_column_maps
      ]_vars

\* C28: when a Database, Schema or Column node of unexpected shape is
\* returned as it was given, the visit leaves every map and every counter
\* as it was, so that the registries list no placeholder for a value left
\* in the text.
C28_PassedThroughAllocatesNothing ==
    [][IsVisit =>
          LET call == trace'[Len(trace')] IN
          /\ UnexpectedShape(call.node)
          /\ call.node.kind \in {"Database", "Schema", "Column"}
          /\ call.result = call.node
          => UNCHANGED registries
      ]_vars

\* C29: in the rewritten statement every column qualifier names a table
\* reference of the rewritten statement: a qualifier that is the alias of a
\* table is kept, as is the alias on the table, and a qualifier that is the
\* name of a table without alias is replaced by the placeholder the table
\* got.
C29_QualifiersFollowTables ==
    \A i, j \in DOMAIN trace :
        LET table == trace[i].node
            column == trace[j].node
        IN
        /\ trace[i].op = "_anonymize_node" /\ trace[j].op = "_anonymize_node"
        /\ table.kind = "Table" /\ table.final = "Identifier"
        /\ column.kind = "Column" /\ column.final = "Identifier"
        /\ column.qualifier # None
        /\ lower(column.qualifier) = lower(alias_name(table))
        => IF table.alias # None
           THEN /\ trace[j].result.qualifier = column.qualifier
                /\ trace[i].result.alias = table.alias
           ELSE trace[j].result.qualifier = trace[i].result.name

\* C30: anonymize_schema leaves the input data store as it found it, for
\* every input_path and output_path, the two being one file included, and
\* however the call ends; only the output path is removed or written.
C30_InputStoreUntouched ==
    spc = "done" => input_file = "intact"

====
